---- MODULE Spec2Model ----
(***************************************************************************)
(* Model of the vidIQ keyword client (src/vidiq_api/vidiq_api.py, with the *)
(* constructor and classifier of src/vidiq_api/client.py).                 *)
(*                                                                         *)
(* Encoding of Python values:                                              *)
(*   - a str is a sequence of one-character strings;                       *)
(*   - an optional value (a dict key that may be missing) is a sequence of *)
(*     length 0 (missing) or 1 (present): None_ and Some(x);               *)
(*   - a metric shown to the caller is Some(n) for the number n and None_  *)
(*     for the sentinel string 'N/A';                                      *)
(*   - a JSON object with free keys (compvol) is a sequence of entries     *)
(*     [key, val] with distinct keys, in document order;                   *)
(*   - an exception message is a record of its parts, not a flat string.   *)
(* Every HTTP exchange is an input of the handler that issues it: the      *)
(* action chooses the response, the handler's operator consumes it.        *)
(***************************************************************************)
EXTENDS Integers, Sequences, FiniteSets, TLC

VARIABLES client, pc, op, args, response, events, outcome, batch, files, export

vars == <<client, pc, op, args, response, events, outcome, batch, files, export>>

---------------------------------------------------------------------------
(* Bounds of the explored inputs *)

MaxKwLen == 2

MaxKeys == 2

MaxBatch == 2

MaxItems == 2

ScorePad == 3

---------------------------------------------------------------------------
(* Optional values *)

None_ == <<>>

Some(x) == <<x>>

IsSome(o) == Len(o) = 1

Val(o) == o[1]

---------------------------------------------------------------------------
(* Python str methods used by the client *)

Chars == {"a", "A", " "}

IsSpace(c) == c = " "

IsCased(c) == c \in {"a", "A"}

LowerChar(c) == IF c = "A" THEN "a" ELSE c

UpperChar(c) == IF c = "a" THEN "A" ELSE c

RECURSIVE lstrip(_)
lstrip(s) == IF s # <<>> /\ IsSpace(Head(s)) THEN lstrip(Tail(s)) ELSE s

RECURSIVE rstrip(_)
rstrip(s) ==
    IF s # <<>> /\ IsSpace(s[Len(s)]) THEN rstrip(SubSeq(s, 1, Len(s) - 1)) ELSE s

strip(s) == rstrip(lstrip(s))

lower(s) == [i \in 1..Len(s) |-> LowerChar(s[i])]

upper(s) == [i \in 1..Len(s) |-> UpperChar(s[i])]

\* str.title(): a cased character is upper-cased when it starts a run of
\* cased characters and lower-cased inside one.
title(s) ==
    [i \in 1..Len(s) |->
        IF ~IsCased(s[i]) THEN s[i]
        ELSE IF i > 1 /\ IsCased(s[i - 1]) THEN LowerChar(s[i])
        ELSE UpperChar(s[i])]

RECURSIVE StringsUpTo(_)
StringsUpTo(n) ==
    IF n = 0 THEN {<<>>}
    ELSE LET shorter == StringsUpTo(n - 1)
         IN  shorter \cup {Append(s, c) : s \in shorter, c \in Chars}

Keywords == StringsUpTo(MaxKwLen)

\* A key of the upstream map that is no spelling of any explored keyword.
OtherKey == <<"z">>

---------------------------------------------------------------------------
(* Level classifier *)

Scores == (0 - ScorePad)..(100 + ScorePad)

\* mutant: exclusive upper bounds
_get_competition_level_exclusive(value) ==
    IF value < 20 THEN "Very Low"
    ELSE IF value < 40 THEN "Low"
    ELSE IF value < 60 THEN "Medium"
    ELSE IF value < 80 THEN "High"
    ELSE "Very High"

\* mutant: the labels of the third and fourth rungs are exchanged
_get_competition_level_swapped(value) ==
    IF value <= 20 THEN "Very Low"
    ELSE IF value <= 40 THEN "Low"
    ELSE IF value <= 60 THEN "High"
    ELSE IF value <= 80 THEN "Medium"
    ELSE "Very High"

\* vidiq_api.py: the if/elif ladder
_get_competition_level(value) ==
    IF value <= 20 THEN "Very Low"
    ELSE IF value <= 40 THEN "Low"
    ELSE IF value <= 60 THEN "Medium"
    ELSE IF value <= 80 THEN "High"
    ELSE "Very High"

levels == <<"Very Low", "Low", "Medium", "High", "Very High">>

Thresholds == <<20, 40, 60, 80>>

\* client.py: first threshold the score does not exceed, else the last level
_get_level(score, thresholds) ==
    LET hits == {i \in 1..Len(thresholds) : score <= thresholds[i]}
    IN  IF hits # {}
        THEN levels[CHOOSE i \in hits : \A j \in hits : i <= j]
        ELSE levels[Len(levels)]

---------------------------------------------------------------------------
(* Upstream JSON *)

MetricFields == {"volume", "competition", "estimated_monthly_search", "overall"}

NoMetrics == [f \in {} |-> 0]

FullMetrics ==
    [f \in MetricFields |->
        CASE f = "volume" -> 50
          [] f = "competition" -> 30
          [] f = "estimated_monthly_search" -> 1000
          [] f = "overall" -> 40]

PartMetrics == [f \in {"volume", "estimated_monthly_search"} |-> IF f = "volume" THEN 90 ELSE 7]

MetricsObjs == {NoMetrics, FullMetrics, PartMetrics}

\* dict.get(field, default) on a metrics object
MGet(m, f, default) == IF f \in DOMAIN m THEN m[f] ELSE default

\* free-key JSON object: key test, lookup, list(keys())
HasKey(obj, k) == \E i \in 1..Len(obj) : obj[i].key = k

Lookup(obj, k) == obj[CHOOSE i \in 1..Len(obj) : obj[i].key = k].val

KeysOf(obj) == [i \in 1..Len(obj) |-> obj[i].key]

NoStats == [compvol |-> None_, related |-> None_]

\* a decoded JSON object: the fields the handlers read, the metric fields it
\* has at top level, and whether it has any other field
EmptyBody ==
    [search_stats |-> None_, keywords |-> None_, related_keywords |-> None_,
     permutations |-> None_, questions |-> None_, metrics |-> NoMetrics, other |-> FALSE]

\* Python truthiness of a decoded JSON object: {} is falsy
Truthy(body) ==
    \/ IsSome(body.search_stats) \/ IsSome(body.keywords)
    \/ IsSome(body.related_keywords) \/ IsSome(body.permutations)
    \/ IsSome(body.questions) \/ DOMAIN body.metrics # {} \/ body.other

\* An HTTP exchange: kind is "none" (no request issued), "RequestException"
\* (session.get or raise_for_status raised one, or response.json() raised the
\* JSONDecodeError of a requests release in which it is a RequestException),
\* "JSONDecodeError" (response.json() raised json.JSONDecodeError), "null"
\* (the body is JSON null) or "object".
\* cause is str(e) of the exception the exchange raised, "" when it raised none
NoResponse == [kind |-> "none", cause |-> "", body |-> EmptyBody]

Cause(kind) ==
    IF kind = "RequestException" THEN "Connection refused"
    ELSE IF kind = "JSONDecodeError" THEN "Expecting value: line 1 column 1 (char 0)"
    ELSE ""

Failure(kind) == [kind |-> kind, cause |-> Cause(kind), body |-> EmptyBody]

\* raise_for_status() on a non-2xx answer: requests.HTTPError, a RequestException
HTTPError == [Failure("RequestException") EXCEPT !.cause = "404 Client Error: Not Found"]

Object(body) == [kind |-> "object", cause |-> "", body |-> body]

IsFalsyData(resp) == resp.kind = "null" \/ (resp.kind = "object" /\ ~Truthy(resp.body))

---------------------------------------------------------------------------
(* Results and exceptions *)

\* str(e) of an exception: "<outer>: <prefix>[ '<quoted>']: <text>[: <keyword>]
\* [. Available keywords: <keys>]", outer and prefix left out when "", quoted
\* when None_
NoMsg ==
    [outer |-> "", prefix |-> "", quoted |-> None_, text |-> "", keyword |-> <<>>,
     keys |-> None_]

Msg(prefix, text, keyword, keys) ==
    [outer |-> "", prefix |-> prefix, quoted |-> None_, text |-> text, keyword |-> keyword,
     keys |-> keys]

\* a dict returned to the caller; a missing key is None_. The Python key
\* 'data' is data (analysis metrics), data_raw (matching, questions: the
\* raw body) or data_list (related: the extracted list).
EmptyDict ==
    [keyword |-> None_, timestamp |-> None_, data |-> None_, levels |-> None_,
     error |-> None_, type |-> None_, data_raw |-> None_, data_list |-> None_,
     count |-> None_, raw_response |-> None_]

DictKeys(d) ==
    {k \in {"keyword", "timestamp", "levels", "error", "type", "count", "raw_response"} :
        IsSome(d[k])}
    \cup (IF IsSome(d.data) \/ IsSome(d.data_raw) \/ IsSome(d.data_list)
          THEN {"data"} ELSE {})

NoOutcome == [status |-> "none", exc |-> "", msg |-> NoMsg, value |-> EmptyDict, level |-> ""]

Return(value) ==
    [status |-> "ok", exc |-> "", msg |-> NoMsg, value |-> value, level |-> ""]

Raise(exc, msg) ==
    [status |-> "raise", exc |-> exc, msg |-> msg, value |-> EmptyDict, level |-> ""]

\* raise Exception(f"{prefix}: {str(e)}") in an except clause
Wrap(prefix, msg) == [msg EXCEPT !.prefix = prefix]

SleepEv(secs) == [e |-> "sleep", secs |-> secs, url |-> "", term |-> <<>>, path |-> <<>>, part |-> ""]

GetEv(url, term) == [e |-> "get", secs |-> 0, url |-> url, term |-> term, path |-> <<>>, part |-> ""]

\* the value the handler's try statement ends with: a failed exchange or an
\* exception raised inside the block is re-raised by the matching except
\* clause as Exception(f"<prefix>: {e}")
try_except(resp, inner) ==
    IF resp.kind = "RequestException"
    THEN Raise("Exception", Msg("Network error", resp.cause, <<>>, None_))
    ELSE IF resp.kind = "JSONDecodeError"
    THEN Raise("Exception", Msg("Invalid JSON response", resp.cause, <<>>, None_))
    ELSE IF inner.status = "raise"
    THEN Raise("Exception", Wrap("API error", inner.msg))
    ELSE inner

\* mutant: the wait is taken after the request instead of before it
exchange_sleep_after(delay, url, term) ==
    <<GetEv(url, term)>> \o (IF delay > 0 THEN <<SleepEv(delay)>> ELSE <<>>)

\* the delay and the one GET of a query method
exchange(delay, url, term) ==
    (IF delay > 0 THEN <<SleepEv(delay)>> ELSE <<>>) \o <<GetEv(url, term)>>

\* the 'part' parameter of the requests to the keyword_search endpoint
WithPart(evs, part) ==
    [i \in 1..Len(evs) |-> IF evs[i].e = "get" THEN [evs[i] EXCEPT !.part = part] ELSE evs[i]]

EmptyKeyword == Raise("ValueError", Msg("", "Keyword cannot be empty", <<>>, None_))

Slept(evs) == {i \in 1..Len(evs) : evs[i].e = "sleep"}

Gets(evs) == {i \in 1..Len(evs) : evs[i].e = "get"}

RECURSIVE Elapsed(_)
Elapsed(evs) == IF evs = <<>> THEN 0 ELSE Head(evs).secs + Elapsed(Tail(evs))

---------------------------------------------------------------------------
(* VidiqAPI.analyze_keyword *)

base_url == "https://api.vidiq.com/v0/hottersearch"

variations(keyword) == <<keyword, lower(keyword), upper(keyword), title(keyword)>>

\* the for loop with break: index of the first variation that is a key, 0 if none
FirstMatch(keyword, compvol) ==
    LET vs == variations(keyword)
        hits == {i \in 1..Len(vs) : HasKey(compvol, vs[i])}
    IN  IF hits = {} THEN 0 ELSE CHOOSE i \in hits : \A j \in hits : i <= j

\* the matched entry, or None (modelled as the falsy NoMetrics) when no
\* variation is a key
keyword_data(keyword, compvol) ==
    IF FirstMatch(keyword, compvol) = 0 THEN NoMetrics
    ELSE Lookup(compvol, variations(keyword)[FirstMatch(keyword, compvol)])

compvol_of(body) ==
    IF IsSome(body.search_stats) /\ IsSome(Val(body.search_stats).compvol)
    THEN Val(Val(body.search_stats).compvol)
    ELSE <<>>

MetricOrNA(m, f) == IF f \in DOMAIN m THEN Some(m[f]) ELSE None_

\* mutant: a missing metric has the level 'N/A' too
format_result_na_level(keyword, now, m) ==
    LET level(f) == IF f \in DOMAIN m THEN _get_competition_level(m[f]) ELSE "N/A"
    IN  [EmptyDict EXCEPT
            !.keyword = Some(keyword),
            !.timestamp = Some(now),
            !.data = Some([volume |-> MetricOrNA(m, "volume"),
                           competition |-> MetricOrNA(m, "competition"),
                           estimated_monthly_search |-> MetricOrNA(m, "estimated_monthly_search"),
                           overall |-> MetricOrNA(m, "overall")]),
            !.levels = Some([volume_level |-> level("volume"),
                             competition_level |-> level("competition"),
                             overall_level |-> level("overall")])]

format_result(keyword, now, m) ==
    [EmptyDict EXCEPT
        !.keyword = Some(keyword),
        !.timestamp = Some(now),
        !.data = Some([volume |-> MetricOrNA(m, "volume"),
                       competition |-> MetricOrNA(m, "competition"),
                       estimated_monthly_search |-> MetricOrNA(m, "estimated_monthly_search"),
                       overall |-> MetricOrNA(m, "overall")]),
        !.levels = Some([volume_level |-> _get_competition_level(MGet(m, "volume", 0)),
                         competition_level |-> _get_competition_level(MGet(m, "competition", 0)),
                         overall_level |-> _get_competition_level(MGet(m, "overall", 0))])]

\* mutant: the result is labelled with the upstream key that matched
analyze_data_matched_key(keyword, now, resp) ==
    IF IsFalsyData(resp) \/ ~IsSome(resp.body.search_stats)
    THEN Raise("Exception", Msg("", "No data returned for keyword", keyword, None_))
    ELSE LET compvol == compvol_of(resp.body)
             kd == keyword_data(keyword, compvol)
         IN  IF DOMAIN kd = {}
             THEN Raise("Exception",
                        Msg("", "No analysis data found for keyword",
                            keyword, Some(KeysOf(compvol))))
             ELSE Return(format_result(variations(keyword)[FirstMatch(keyword, compvol)],
                                       now, kd))

\* mutant: the not-found error does not list the available keys
analyze_data_no_keys(keyword, now, resp) ==
    IF IsFalsyData(resp) \/ ~IsSome(resp.body.search_stats)
    THEN Raise("Exception", Msg("", "No data returned for keyword", keyword, None_))
    ELSE LET compvol == compvol_of(resp.body)
             kd == keyword_data(keyword, compvol)
         IN  IF DOMAIN kd = {}
             THEN Raise("Exception",
                        Msg("", "No analysis data found for keyword", keyword, None_))
             ELSE Return(format_result(keyword, now, kd))

\* the body of the try block once response.json() has returned
analyze_data(keyword, now, resp) ==
    IF IsFalsyData(resp) \/ ~IsSome(resp.body.search_stats)
    THEN Raise("Exception", Msg("", "No data returned for keyword", keyword, None_))
    ELSE LET compvol == compvol_of(resp.body)
             kd == keyword_data(keyword, compvol)
         IN  IF DOMAIN kd = {}
             THEN Raise("Exception",
                        Msg("", "No analysis data found for keyword",
                            keyword, Some(KeysOf(compvol))))
             ELSE Return(format_result(keyword, now, kd))

\* mutant: the keyword is checked after the delay
analyze_keyword_late_check(keyword, delay, t0, resp) ==
    LET nap == IF delay > 0 THEN <<SleepEv(delay)>> ELSE <<>>
    IN  IF strip(keyword) = <<>>
        THEN [events |-> nap, response |-> NoResponse, outcome |-> EmptyKeyword]
        ELSE LET evs == exchange(delay, base_url, strip(keyword))
             IN  [events |-> evs, response |-> resp,
                  outcome |-> try_except(resp, analyze_data(keyword, t0 + Elapsed(evs), resp))]

\* analyze_keyword(keyword, delay) started at time t0, the GET answered by resp:
\* the side effects in order, the response consumed, and the outcome
analyze_keyword(keyword, delay, t0, resp) ==
    IF strip(keyword) = <<>>
    THEN [events |-> <<>>, response |-> NoResponse, outcome |-> EmptyKeyword]
    ELSE LET evs == exchange(delay, base_url, strip(keyword))
         IN  [events |-> evs, response |-> resp,
              outcome |-> try_except(resp, analyze_data(keyword, t0 + Elapsed(evs), resp))]

---------------------------------------------------------------------------
(* VidiqAPI.analyze_multiple_keywords *)

\* mutant: an existing entry is kept (setdefault)
SetItem_keep_first(obj, k, v) ==
    IF HasKey(obj, k) THEN obj ELSE Append(obj, [key |-> k, val |-> v])

\* results[keyword] = value on a dict kept as entries in insertion order
SetItem(obj, k, v) ==
    IF HasKey(obj, k)
    THEN [i \in 1..Len(obj) |-> IF obj[i].key = k THEN [key |-> k, val |-> v] ELSE obj[i]]
    ELSE Append(obj, [key |-> k, val |-> v])

\* what one turn of the loop stores for the outcome of analyze_keyword
batch_entry(o) ==
    IF o.status = "ok" THEN o.value ELSE [EmptyDict EXCEPT !.error = Some(o.msg)]

---------------------------------------------------------------------------
(* client.py: VidiqAPI.analyze_keyword, _format_response *)

BASE_URL == "https://api.vidiq.com/v1/youtube/keywords"

\* _format_response(keyword, data): each metric is data.get(field, 0), each
\* level the class of that value
_format_response(keyword, now, data) ==
    [EmptyDict EXCEPT
        !.keyword = Some(keyword),
        !.timestamp = Some(now),
        !.data = Some([volume |-> Some(MGet(data.metrics, "volume", 0)),
                       competition |-> Some(MGet(data.metrics, "competition", 0)),
                       estimated_monthly_search |->
                           Some(MGet(data.metrics, "estimated_monthly_search", 0)),
                       overall |-> Some(MGet(data.metrics, "overall", 0))]),
        !.levels = Some([volume_level |->
                             _get_level(MGet(data.metrics, "volume", 0), Thresholds),
                         competition_level |->
                             _get_level(MGet(data.metrics, "competition", 0), Thresholds),
                         overall_level |->
                             _get_level(MGet(data.metrics, "overall", 0), Thresholds)])]

\* the value the try statement of client.py ends with: only a
\* RequestException is caught and re-raised, naming the trimmed keyword; a
\* json.JSONDecodeError and the AttributeError of data.get on None leave the
\* method as they are
client_try_except(keyword, now, resp) ==
    IF resp.kind = "RequestException"
    THEN Raise("Exception",
               [Msg("API request failed for keyword", resp.cause, <<>>, None_)
                    EXCEPT !.quoted = Some(keyword)])
    ELSE IF resp.kind = "JSONDecodeError"
    THEN Raise("JSONDecodeError", Msg("", resp.cause, <<>>, None_))
    ELSE IF resp.kind = "null"
    THEN Raise("AttributeError",
               Msg("", "'NoneType' object has no attribute 'get'", <<>>, None_))
    ELSE Return(_format_response(keyword, now, resp.body))

\* client.py analyze_keyword(keyword, delay) started at time t0, the GET
\* answered by resp: the side effects in order, the response consumed, and
\* the outcome
client_analyze_keyword(keyword, delay, t0, resp) ==
    IF keyword = <<>> \/ strip(keyword) = <<>>
    THEN [events |-> <<>>, response |-> NoResponse, outcome |-> EmptyKeyword]
    ELSE LET evs == exchange(delay, BASE_URL, strip(keyword))
         IN  [events |-> evs, response |-> resp,
              outcome |-> client_try_except(strip(keyword), t0 + Elapsed(evs), resp)]

---------------------------------------------------------------------------
(* VidiqAPI.get_matching_keywords, get_questions, get_related_keywords *)

keyword_search_url == "https://api.vidiq.com/xwords/keyword_search/"

related_search_url == "https://api.vidiq.com/xwords/hottersearch"

envelope(keyword, now, type) ==
    [EmptyDict EXCEPT !.keyword = Some(keyword), !.timestamp = Some(now), !.type = Some(type)]

\* mutant: a response without the list field is an error
matching_data_strict(keyword, now, resp) ==
    IF IsFalsyData(resp) \/ ~IsSome(resp.body.permutations)
    THEN Raise("Exception", Msg("", "No matching keywords found for", keyword, None_))
    ELSE Return([envelope(keyword, now, "matching_keywords") EXCEPT
                    !.data_raw = Some(resp.body),
                    !.count = Some(Len(Val(resp.body.permutations)))])

matching_data(keyword, now, resp) ==
    IF IsFalsyData(resp)
    THEN Raise("Exception", Msg("", "No matching keywords found for", keyword, None_))
    ELSE Return([envelope(keyword, now, "matching_keywords") EXCEPT
                    !.data_raw = Some(resp.body),
                    !.count = Some(IF IsSome(resp.body.permutations)
                                   THEN Len(Val(resp.body.permutations)) ELSE 0)])

\* mutant: a failed request is sent a second time
get_matching_keywords_retry(keyword, delay, t0, resp) ==
    IF strip(keyword) = <<>>
    THEN [events |-> <<>>, response |-> NoResponse, outcome |-> EmptyKeyword]
    ELSE LET once == exchange(delay, keyword_search_url, strip(keyword))
             evs == WithPart(IF resp.kind = "RequestException"
                             THEN once \o <<GetEv(keyword_search_url, strip(keyword))>>
                             ELSE once, "permutations")
         IN  [events |-> evs, response |-> resp,
              outcome |-> try_except(resp, matching_data(keyword, t0 + Elapsed(evs), resp))]

get_matching_keywords(keyword, delay, t0, resp) ==
    IF strip(keyword) = <<>>
    THEN [events |-> <<>>, response |-> NoResponse, outcome |-> EmptyKeyword]
    ELSE LET evs == WithPart(exchange(delay, keyword_search_url, strip(keyword)), "permutations")
         IN  [events |-> evs, response |-> resp,
              outcome |-> try_except(resp, matching_data(keyword, t0 + Elapsed(evs), resp))]

\* mutant: an empty body is returned as an envelope with count 0
questions_data_lenient(keyword, now, resp) ==
    Return([envelope(keyword, now, "questions") EXCEPT
                !.data_raw = Some(resp.body),
                !.count = Some(IF IsSome(resp.body.questions)
                               THEN Len(Val(resp.body.questions)) ELSE 0)])

questions_data(keyword, now, resp) ==
    IF IsFalsyData(resp)
    THEN Raise("Exception", Msg("", "No questions found for", keyword, None_))
    ELSE Return([envelope(keyword, now, "questions") EXCEPT
                    !.data_raw = Some(resp.body),
                    !.count = Some(IF IsSome(resp.body.questions)
                                   THEN Len(Val(resp.body.questions)) ELSE 0)])

get_questions(keyword, delay, t0, resp) ==
    IF strip(keyword) = <<>>
    THEN [events |-> <<>>, response |-> NoResponse, outcome |-> EmptyKeyword]
    ELSE LET evs == WithPart(exchange(delay, keyword_search_url, strip(keyword)), "questions")
         IN  [events |-> evs, response |-> resp,
              outcome |-> try_except(resp, questions_data(keyword, t0 + Elapsed(evs), resp))]

\* mutant: a field counts only when its list is non-empty
related_keywords_truthy(body) ==
    IF IsSome(body.keywords) /\ Val(body.keywords) # <<>> THEN Val(body.keywords)
    ELSE IF IsSome(body.related_keywords) /\ Val(body.related_keywords) # <<>>
    THEN Val(body.related_keywords)
    ELSE IF IsSome(body.search_stats) /\ IsSome(Val(body.search_stats).related)
    THEN Val(Val(body.search_stats).related)
    ELSE <<>>

\* the if/elif chain picking the related list
related_keywords(body) ==
    IF IsSome(body.keywords) THEN Val(body.keywords)
    ELSE IF IsSome(body.related_keywords) THEN Val(body.related_keywords)
    ELSE IF IsSome(body.search_stats) /\ IsSome(Val(body.search_stats).related)
    THEN Val(Val(body.search_stats).related)
    ELSE <<>>

\* mutant: an empty related list is an error
related_data_strict(keyword, now, resp) ==
    IF IsFalsyData(resp) \/ related_keywords(resp.body) = <<>>
    THEN Raise("Exception", Msg("", "No related keywords found for", keyword, None_))
    ELSE Return([envelope(keyword, now, "related_keywords") EXCEPT
                    !.data_list = Some(related_keywords(resp.body)),
                    !.count = Some(Len(related_keywords(resp.body))),
                    !.raw_response = Some(resp.body)])

related_data(keyword, now, resp) ==
    IF IsFalsyData(resp)
    THEN Raise("Exception", Msg("", "No related keywords found for", keyword, None_))
    ELSE Return([envelope(keyword, now, "related_keywords") EXCEPT
                    !.data_list = Some(related_keywords(resp.body)),
                    !.count = Some(Len(related_keywords(resp.body))),
                    !.raw_response = Some(resp.body)])

get_related_keywords(keyword, delay, t0, resp) ==
    IF strip(keyword) = <<>>
    THEN [events |-> <<>>, response |-> NoResponse, outcome |-> EmptyKeyword]
    ELSE LET evs == exchange(delay, related_search_url, strip(keyword))
         IN  [events |-> evs, response |-> resp,
              outcome |-> try_except(resp, related_data(keyword, t0 + Elapsed(evs), resp))]

---------------------------------------------------------------------------
(* CSV export: _add_*_to_csv, _write_csv_file *)

\* The directory tree the export works in: the directories that exist and
\* the files, each a path with its lines. A path is a sequence of string
\* pieces, a line is a sequence of cells, a cell is the text csv writes.
NoFiles == [dirs |-> {"."}, entries |-> <<>>]

OpenEv(path) == [e |-> "open", secs |-> 0, url |-> "", term |-> <<>>, path |-> path, part |-> ""]

MakedirsEv(dir) == [e |-> "makedirs", secs |-> 0, url |-> "", term |-> <<>>, path |-> <<dir>>, part |-> ""]

IsAlnum(c) == IsCased(c)

\* "".join(c for c in keyword if c.isalnum() or c in (' ', '-', '_')).rstrip()
\*    .replace(' ', '_')
safe_keyword(keyword) ==
    LET kept == SelectSeq(keyword, LAMBDA c : IsAlnum(c) \/ c \in {" ", "-", "_"})
        cut == rstrip(kept)
    IN  [i \in 1..Len(cut) |-> IF cut[i] = " " THEN "_" ELSE cut[i]]

\* str(item): a string is itself, a dict is its printed form
str(item) == IF item.isdict THEN <<ToString(item)>> ELSE item.text

\* mutant: a structured element without keyword gets 'N/A' like the other fields
csv_row_keyword_na(item, type, data) ==
    [keyword |-> IF item.isdict
                 THEN (IF IsSome(item.keyword) THEN Val(item.keyword) ELSE <<"N/A">>)
                 ELSE str(item),
     type |-> type,
     score |-> IF item.isdict THEN item.score ELSE None_,
     volume |-> IF item.isdict THEN item.volume ELSE None_,
     competition |-> IF item.isdict THEN item.competition ELSE None_,
     source_keyword |-> IF IsSome(data.keyword) THEN Val(data.keyword) ELSE <<>>,
     timestamp |-> IF IsSome(data.timestamp) THEN <<ToString(Val(data.timestamp))>> ELSE <<>>]

\* the dict appended for one element of an upstream list; source_keyword and
\* timestamp are the texts data.get('keyword', '') and data.get('timestamp', '')
csv_row(item, type, data) ==
    [keyword |-> IF item.isdict
                 THEN (IF IsSome(item.keyword) THEN Val(item.keyword) ELSE str(item))
                 ELSE str(item),
     type |-> type,
     score |-> IF item.isdict THEN item.score ELSE None_,
     volume |-> IF item.isdict THEN item.volume ELSE None_,
     competition |-> IF item.isdict THEN item.competition ELSE None_,
     source_keyword |-> IF IsSome(data.keyword) THEN Val(data.keyword) ELSE <<>>,
     timestamp |-> IF IsSome(data.timestamp) THEN <<ToString(Val(data.timestamp))>> ELSE <<>>]

\* mutant: the rows of a list are collected last element first
rows_of_reversed(list, type, data) ==
    [i \in 1..Len(list) |-> csv_row(list[Len(list) + 1 - i], type, data)]

rows_of(list, type, data) == [i \in 1..Len(list) |-> csv_row(list[i], type, data)]

\* related_data.get('data', [])
_add_related_to_csv(csv_rows, data) ==
    csv_rows \o rows_of(IF IsSome(data.data_list) THEN Val(data.data_list) ELSE <<>>,
                        "related", data)

\* matching_data.get('data', {}).get('permutations', [])
_add_matching_to_csv(csv_rows, data) ==
    csv_rows \o rows_of(IF IsSome(data.data_raw)
                           /\ IsSome(Val(data.data_raw).permutations)
                        THEN Val(Val(data.data_raw).permutations) ELSE <<>>,
                        "matching", data)

\* questions_data.get('data', {}).get('questions', [])
_add_questions_to_csv(csv_rows, data) ==
    csv_rows \o rows_of(IF IsSome(data.data_raw)
                           /\ IsSome(Val(data.data_raw).questions)
                        THEN Val(Val(data.data_raw).questions) ELSE <<>>,
                        "question", data)

headers ==
    <<<<"keyword">>, <<"type">>, <<"score">>, <<"volume">>, <<"competition">>,
      <<"source_keyword">>, <<"timestamp">>>>

\* the text csv.DictWriter writes for a value: str(value), 'N/A' as it is
cell(o) == IF IsSome(o) THEN <<ToString(Val(o))>> ELSE <<"N/A">>

\* writer.writerow(row): the cells in the order of the headers
writerow(row) ==
    <<row.keyword, <<row.type>>, cell(row.score), cell(row.volume), cell(row.competition),
      row.source_keyword, row.timestamp>>

\* mutant: an empty row list is written as a file holding only the header
_write_csv_file_header_only(output_file, csv_rows, io, fs) ==
    IF io = "denied"
    THEN [events |-> <<OpenEv(output_file)>>, files |-> fs,
          outcome |-> Raise("Exception",
                        Msg("Failed to write CSV file", "Permission denied", <<>>, None_))]
    ELSE [events |-> <<OpenEv(output_file)>>,
          files |-> [fs EXCEPT !.entries =
                        SetItem(fs.entries, output_file,
                                <<headers>> \o [i \in 1..Len(csv_rows) |-> writerow(csv_rows[i])])],
          outcome |-> Return(EmptyDict)]

\* _write_csv_file(output_file, csv_rows, source_keyword) in the directory
\* tree fs; io = "denied" when the tree is read-only (open raises)
_write_csv_file(output_file, csv_rows, io, fs) ==
    IF csv_rows = <<>>
    THEN [events |-> <<>>, files |-> fs,
          outcome |-> Raise("Exception", Msg("", "No data to export", <<>>, None_))]
    ELSE IF io = "denied"
    THEN [events |-> <<OpenEv(output_file)>>, files |-> fs,
          outcome |-> Raise("Exception",
                        Msg("Failed to write CSV file", "Permission denied", <<>>, None_))]
    ELSE [events |-> <<OpenEv(output_file)>>,
          files |-> [fs EXCEPT !.entries =
                        SetItem(fs.entries, output_file,
                                <<headers>> \o [i \in 1..Len(csv_rows) |-> writerow(csv_rows[i])])],
          outcome |-> Return(EmptyDict)]

\* raise Exception(f"{outer}: {str(e)}") in the except clause of an export
WrapOuter(outer, msg) == [msg EXCEPT !.outer = outer]

---------------------------------------------------------------------------
(* VidiqAPI.export_to_csv *)

\* the value of a one-element set. Statements in sequence are written
\* The({rest(v) : v \in {first}}): the first is computed once, the rest runs
\* on its value
The(S) == CHOOSE y \in S : TRUE

\* the path written: the caller's, or one made from the keyword
output_path(keyword, output_file) ==
    IF output_file = None_ \/ Val(output_file) = <<>>
    THEN safe_keyword(keyword) \o <<"_keywords.csv">>
    ELSE Val(output_file)

\* the i-th query of an export: related, matching, questions
query(i, keyword, delay, t0, resp) ==
    IF i = 1 THEN get_related_keywords(keyword, delay, t0, resp)
    ELSE IF i = 2 THEN get_matching_keywords(keyword, delay, t0, resp)
    ELSE get_questions(keyword, delay, t0, resp)

\* an export before its first query, in the directory tree fs
started(evs, fs) ==
    [events |-> evs, responses |-> <<>>, outcome |-> Return(EmptyDict),
     values |-> <<>>, files |-> fs, file_paths |-> <<>>]

\* the next query of export_to_csv, not reached when an earlier one raised
then_query(st, i, keyword, delay, t0, resp) ==
    IF st.outcome.status = "raise" THEN st
    ELSE The({[st EXCEPT !.events = @ \o q.events,
                         !.responses = Append(@, q.response),
                         !.outcome = q.outcome,
                         !.values = Append(@, q.outcome.value)] :
              q \in {query(i, keyword, delay, t0 + Elapsed(st.events), resp)}})

\* the three queries of export_to_csv in order, begun in state st0
export_queries(st0, keyword, delay, t0, resps) ==
    The({then_query(s2, 3, keyword, delay, t0, resps[3]) :
          s2 \in {then_query(s1, 2, keyword, delay, t0, resps[2]) :
                   s1 \in {then_query(s0, 1, keyword, delay, t0, resps[1]) : s0 \in {st0}}}})

\* csv_rows after the three _add_*_to_csv calls
all_rows(values) ==
    _add_questions_to_csv(
        _add_matching_to_csv(_add_related_to_csv(<<>>, values[1]), values[2]),
        values[3])

\* the except clause of export_to_csv
export_failed(evs, rs, msg, tree) ==
    [events |-> evs, responses |-> rs, path |-> None_, files |-> tree,
     outcome |-> Raise("Exception", WrapOuter("Failed to export CSV", msg))]

\* mutant: the output file is opened for writing before the queries are made
export_to_csv_open_first(keyword, output_file, delay, t0, resps, io, fs) ==
    IF strip(keyword) = <<>>
    THEN [events |-> <<>>, responses |-> <<>>, outcome |-> EmptyKeyword,
          path |-> None_, files |-> fs]
    ELSE LET out == output_path(keyword, output_file)
             opened == [fs EXCEPT !.entries = SetItem(fs.entries, out, <<>>)]
         IN  The({IF s3.outcome.status = "raise"
                  THEN export_failed(s3.events, s3.responses, s3.outcome.msg, opened)
                  ELSE The({IF w.outcome.status = "raise"
                            THEN export_failed(s3.events, s3.responses, w.outcome.msg, opened)
                            ELSE [events |-> s3.events, responses |-> s3.responses,
                                  path |-> Some(out), files |-> w.files,
                                  outcome |-> Return(EmptyDict)] :
                            w \in {_write_csv_file(out, all_rows(s3.values), "ok", opened)}}) :
                  s3 \in {export_queries(started(<<OpenEv(out)>>, opened),
                                         keyword, delay, t0, resps)}})

\* export_to_csv(keyword, output_file, delay=delay) started at time t0 in the
\* directory tree fs, the three GETs answered by resps[1..3]: the side
\* effects in order, the responses consumed, the outcome, the returned path
\* and the tree afterwards
export_to_csv(keyword, output_file, delay, t0, resps, io, fs) ==
    IF strip(keyword) = <<>>
    THEN [events |-> <<>>, responses |-> <<>>, outcome |-> EmptyKeyword,
          path |-> None_, files |-> fs]
    ELSE LET out == output_path(keyword, output_file)
         IN  The({IF s3.outcome.status = "raise"
                  THEN export_failed(s3.events, s3.responses, s3.outcome.msg, fs)
                  ELSE The({IF w.outcome.status = "raise"
                            THEN export_failed(s3.events \o w.events, s3.responses,
                                               w.outcome.msg, w.files)
                            ELSE [events |-> s3.events \o w.events,
                                  responses |-> s3.responses,
                                  path |-> Some(out), files |-> w.files,
                                  outcome |-> Return(EmptyDict)] :
                            w \in {_write_csv_file(out, all_rows(s3.values), io, fs)}}) :
                  s3 \in {export_queries(started(<<>>, fs), keyword, delay, t0, resps)}})

---------------------------------------------------------------------------
(* VidiqAPI.export_separate_csvs *)

\* os.path.join(output_dir, name)
join(output_dir, name) == <<output_dir, "/">> \o name

\* mutant: a type without rows is skipped instead of failing the export
_export_single_type_csv_skip_empty(data, output_file, data_type, io, fs) ==
    LET csv_rows ==
            IF data_type = "related" THEN _add_related_to_csv(<<>>, data)
            ELSE IF data_type = "matching" THEN _add_matching_to_csv(<<>>, data)
            ELSE IF data_type = "questions" THEN _add_questions_to_csv(<<>>, data)
            ELSE <<>>
    IN  IF csv_rows = <<>>
        THEN [events |-> <<>>, files |-> fs, outcome |-> Return(EmptyDict)]
        ELSE _write_csv_file(output_file, csv_rows, io, fs)

_export_single_type_csv(data, output_file, data_type, io, fs) ==
    LET csv_rows ==
            IF data_type = "related" THEN _add_related_to_csv(<<>>, data)
            ELSE IF data_type = "matching" THEN _add_matching_to_csv(<<>>, data)
            ELSE IF data_type = "questions" THEN _add_questions_to_csv(<<>>, data)
            ELSE <<>>
    IN  _write_csv_file(output_file, csv_rows, io, fs)

data_types == <<"related", "matching", "questions">>

\* f"{safe_keyword}_related.csv" and its like, after the safe keyword
file_suffixes == <<"_related.csv", "_matching.csv", "_questions.csv">>

\* the next type of export_separate_csvs: its query, its file, its entry in
\* file_paths; not reached when an earlier statement raised
then_type(st, i, keyword, output_dir, delay, t0, resp, io) ==
    IF st.outcome.status = "raise" THEN st
    ELSE LET file == join(output_dir, safe_keyword(keyword) \o <<file_suffixes[i]>>)
         IN  The({IF q.outcome.status = "raise"
                  THEN [st EXCEPT !.events = @ \o q.events,
                                  !.responses = Append(@, q.response),
                                  !.outcome = q.outcome]
                  ELSE The({[st EXCEPT !.events = @ \o q.events \o w.events,
                                       !.responses = Append(@, q.response),
                                       !.outcome = w.outcome,
                                       !.files = w.files,
                                       !.file_paths =
                                           IF w.outcome.status = "raise" THEN @
                                           ELSE Append(@, [key |-> data_types[i], val |-> file])] :
                            w \in {_export_single_type_csv(q.outcome.value, file,
                                                           data_types[i], io, st.files)}}) :
                  q \in {query(i, keyword, delay, t0 + Elapsed(st.events), resp)}})

\* the three types of export_separate_csvs in order, begun in state st0
export_types(st0, keyword, output_dir, delay, t0, resps, io) ==
    The({then_type(s2, 3, keyword, output_dir, delay, t0, resps[3], io) :
          s2 \in {then_type(s1, 2, keyword, output_dir, delay, t0, resps[2], io) :
                   s1 \in {then_type(s0, 1, keyword, output_dir, delay, t0, resps[1], io) :
                            s0 \in {st0}}}})

\* mutant: a failed export removes what it created (the tree is restored)
export_separate_csvs_rollback(keyword, output_dir, delay, t0, resps, io, fs) ==
    IF strip(keyword) = <<>>
    THEN [events |-> <<>>, responses |-> <<>>, outcome |-> EmptyKeyword,
          file_paths |-> <<>>, files |-> fs]
    ELSE IF output_dir \notin fs.dirs /\ io = "denied"
    THEN [events |-> <<MakedirsEv(output_dir)>>, responses |-> <<>>,
          outcome |-> Raise("PermissionError", Msg("", "Permission denied", <<>>, None_)),
          file_paths |-> <<>>, files |-> fs]
    ELSE LET fs0 == [fs EXCEPT !.dirs = @ \cup {output_dir}]
         IN  The({IF s3.outcome.status = "raise"
                  THEN [events |-> s3.events, responses |-> s3.responses,
                        file_paths |-> <<>>, files |-> fs,
                        outcome |-> Raise("Exception",
                                      WrapOuter("Failed to export separate CSVs",
                                                s3.outcome.msg))]
                  ELSE [events |-> s3.events, responses |-> s3.responses,
                        file_paths |-> s3.file_paths, files |-> s3.files,
                        outcome |-> Return(EmptyDict)] :
                  s3 \in {export_types(started(<<MakedirsEv(output_dir)>>, fs0),
                                       keyword, output_dir, delay, t0, resps, io)}})

\* export_separate_csvs(keyword, output_dir, delay=delay): as export_to_csv,
\* with the returned dict of paths (file_paths) instead of one path
export_separate_csvs(keyword, output_dir, delay, t0, resps, io, fs) ==
    IF strip(keyword) = <<>>
    THEN [events |-> <<>>, responses |-> <<>>, outcome |-> EmptyKeyword,
          file_paths |-> <<>>, files |-> fs]
    ELSE IF output_dir \notin fs.dirs /\ io = "denied"
    THEN [events |-> <<MakedirsEv(output_dir)>>, responses |-> <<>>,
          outcome |-> Raise("PermissionError", Msg("", "Permission denied", <<>>, None_)),
          file_paths |-> <<>>, files |-> fs]
    ELSE LET fs0 == [fs EXCEPT !.dirs = @ \cup {output_dir}]
         IN  The({IF s3.outcome.status = "raise"
                  THEN [events |-> s3.events, responses |-> s3.responses,
                        file_paths |-> <<>>, files |-> s3.files,
                        outcome |-> Raise("Exception",
                                      WrapOuter("Failed to export separate CSVs",
                                                s3.outcome.msg))]
                  ELSE [events |-> s3.events, responses |-> s3.responses,
                        file_paths |-> s3.file_paths, files |-> s3.files,
                        outcome |-> Return(EmptyDict)] :
                  s3 \in {export_types(started(<<MakedirsEv(output_dir)>>, fs0),
                                       keyword, output_dir, delay, t0, resps, io)}})

---------------------------------------------------------------------------
(* Explored inputs *)

Tokens == {"", "tok"}

Delays == {-1, 0, 1}

RECURSIVE SeqsUpTo(_, _)
SeqsUpTo(S, n) ==
    IF n = 0 THEN {<<>>}
    ELSE LET shorter == SeqsUpTo(S, n - 1)
         IN  shorter \cup {Append(s, x) : s \in shorter, x \in S}

RECURSIVE Dedup(_)
Dedup(s) ==
    IF s = <<>> THEN <<>>
    ELSE LET d == Dedup(SubSeq(s, 1, Len(s) - 1))
             x == s[Len(s)]
         IN  IF \E i \in 1..Len(d) : d[i] = x THEN d ELSE Append(d, x)

\* keys the upstream may answer a query for kw with, in document order: an
\* unrelated key, then the spellings of kw from the last variation tried to
\* the first, so that document order and lookup order differ
CandidateKeys(kw) ==
    Dedup(<<OtherKey, title(kw), upper(kw), lower(kw), strip(kw), kw>>)

\* the objects with at most n entries whose keys are a subsequence of ks
RECURSIVE ObjectsOver(_, _)
ObjectsOver(ks, n) ==
    IF ks = <<>> \/ n = 0 THEN {<<>>}
    ELSE ObjectsOver(Tail(ks), n)
         \cup {<<[key |-> Head(ks), val |-> m]>> \o o :
                 m \in MetricsObjs, o \in ObjectsOver(Tail(ks), n - 1)}

CompvolMaps(kw) == ObjectsOver(CandidateKeys(kw), MaxKeys)

AnalysisBodies(kw) ==
    {EmptyBody, [EmptyBody EXCEPT !.other = TRUE],
     [EmptyBody EXCEPT !.search_stats = Some(NoStats)]}
    \cup {[EmptyBody EXCEPT !.search_stats = Some([NoStats EXCEPT !.compvol = Some(c)])] :
            c \in CompvolMaps(kw)}

Failures == {Failure("RequestException"), HTTPError, Failure("JSONDecodeError"), Failure("null")}

AnalysisResponses(kw) == Failures \cup {Object(b) : b \in AnalysisBodies(kw)}

\* the keywords of the batch and of the auxiliary queries: empty, blank, and
\* two spellings of a one-letter keyword
ShortKeywords == {k \in Keywords : Len(k) <= 1}

StatsWith(c) == Object([EmptyBody EXCEPT !.search_stats = Some([NoStats EXCEPT !.compvol = Some(c)])])

\* in a batch, one response per class of outcome: transport failure, empty
\* map, a hit through the lowercase spelling, a miss
BatchResponses(kw) ==
    {Failure("RequestException"),
     StatsWith(<<>>),
     StatsWith(<<[key |-> lower(kw), val |-> FullMetrics]>>),
     StatsWith(<<[key |-> OtherKey, val |-> PartMetrics]>>)}

\* elements of the upstream lists: a bare string or an object
NoItem ==
    [isdict |-> FALSE, text |-> <<>>, keyword |-> None_, score |-> None_,
     volume |-> None_, competition |-> None_]

StrItem == [NoItem EXCEPT !.text = <<"a">>]

DictItem ==
    [NoItem EXCEPT !.isdict = TRUE, !.keyword = Some(<<"A">>), !.score = Some(70),
                   !.competition = Some(30)]

Items == {StrItem, DictItem}

ItemLists == SeqsUpTo(Items, MaxItems)

OptLists == {None_} \cup {Some(l) : l \in ItemLists}

\* responses to a permutations or questions query: either list field may be
\* present, and another top-level field may be
SearchBodies ==
    {[EmptyBody EXCEPT !.permutations = p, !.questions = q, !.other = o] :
        p \in OptLists, q \in OptLists, o \in BOOLEAN}

SearchResponses == Failures \cup {Object(b) : b \in SearchBodies}

FewLists == {None_, Some(<<>>), Some(<<StrItem>>)}

RelatedBodies ==
    {[EmptyBody EXCEPT !.keywords = k, !.related_keywords = r, !.search_stats = st, !.other = o] :
        k \in OptLists, r \in FewLists,
        st \in {None_} \cup {Some([NoStats EXCEPT !.related = x]) : x \in FewLists},
        o \in BOOLEAN}

RelatedResponses == Failures \cup {Object(b) : b \in RelatedBodies}

\* keywords of the exports: blank, and one with a leading space
ExportKeywords == {<<" ">>, <<" ", "a">>}

ExportDelays == {0, 1}

OutputFiles == {None_, Some(<<"out.csv">>)}

OutputDirs == {".", "out"}

\* whether the directory tree can be written
IOs == {"ok", "denied"}

\* the content of a file left by an earlier run
OldLines == <<<<<<"old">>>>>>

\* the tree before an export: fresh, or the directory and the files at the
\* given paths left by an earlier run
Trees(dir, paths) ==
    {NoFiles,
     [dirs |-> {".", dir},
      entries |-> [i \in 1..Len(paths) |-> [key |-> paths[i], val |-> OldLines]]]}

OtherOnly == Object([EmptyBody EXCEPT !.other = TRUE])

\* answers to the three queries of an export: a failure, a body without the
\* list, and the list with each content
ExportRelated ==
    {Failure("RequestException"), Failure("null"), OtherOnly}
    \cup {Object([EmptyBody EXCEPT !.keywords = Some(l)]) : l \in ItemLists}

\* a structured element without a keyword field
BareDict == [NoItem EXCEPT !.isdict = TRUE, !.volume = Some(5)]

ExportItems == Items \cup {BareDict}

ExportMatching ==
    {Failure("RequestException"), OtherOnly}
    \cup {Object([EmptyBody EXCEPT !.permutations = Some(l)]) : l \in SeqsUpTo(ExportItems, 1)}

ExportQuestions ==
    {HTTPError, OtherOnly}
    \cup {Object([EmptyBody EXCEPT !.questions = Some(l)]) : l \in SeqsUpTo(ExportItems, 1)}

\* answers to client.py's analyze_keyword: the failures, and an object with
\* none, some or all of the metric fields
ClientResponses ==
    Failures \cup {Object([EmptyBody EXCEPT !.metrics = m]) : m \in MetricsObjs}

\* in a client.py batch, one response per class of outcome
ClientBatchResponses ==
    {Failure("RequestException"), Failure("null"),
     Object([EmptyBody EXCEPT !.metrics = PartMetrics])}

NoArgs ==
    [keyword |-> <<>>, delay |-> 0, score |-> 0, token |-> "", env |-> "", keywords |-> <<>>,
     output_file |-> None_, output_dir |-> ""]

NoBatch == [i |-> 0, results |-> <<>>, log |-> <<>>]

\* an export under way: the tree it started in, whether the tree can be
\* written, the responses consumed so far, and what the call returned
NoExport ==
    [io |-> "ok", before |-> NoFiles, responses |-> <<>>, path |-> None_, file_paths |-> <<>>]

NoClient == [constructed |-> FALSE, auth_token |-> "", module |-> ""]

---------------------------------------------------------------------------
(* Constructors *)

\* vidiq_api.py VidiqAPI.__init__(auth_token): stores the token, no check
vidiq_init(auth_token) ==
    [client |-> [constructed |-> TRUE, auth_token |-> auth_token, module |-> "vidiq_api"],
     outcome |-> Return(EmptyDict)]

\* client.py VidiqAPI.__init__(auth_token): auth_token or os.getenv('VIDIQ_TOKEN')
client_init(auth_token, env) ==
    LET tok == IF auth_token # "" THEN auth_token ELSE env
    IN  IF tok = ""
        THEN [client |-> NoClient,
              outcome |-> Raise("ValueError", Msg("", "No auth token provided", <<>>, None_))]
        ELSE [client |-> [constructed |-> TRUE, auth_token |-> tok, module |-> "client"],
              outcome |-> Return(EmptyDict)]

---------------------------------------------------------------------------
(* State machine: one caller, one call at a time *)

\* a client constructed with a token, no call in progress
Init ==
    /\ client = vidiq_init("tok").client
    /\ pc = "idle"
    /\ op = ""
    /\ args = NoArgs
    /\ response = NoResponse
    /\ events = <<>>
    /\ outcome = NoOutcome
    /\ batch = NoBatch
    /\ files = NoFiles
    /\ export = NoExport

\* the caller may start a method of a vidiq_api client, whatever token it holds
Ready ==
    /\ pc = "idle"
    /\ client.constructed
    /\ client.module = "vidiq_api"

\* the caller may start a method of a client.py client
ReadyClient ==
    /\ pc = "idle"
    /\ client.constructed
    /\ client.module = "client"

Construct ==
    /\ pc = "idle"
    /\ \E token \in Tokens :
        /\ client' = vidiq_init(token).client
        /\ outcome' = vidiq_init(token).outcome
        /\ args' = [NoArgs EXCEPT !.token = token]
    /\ pc' = "done"
    /\ op' = "__init__"
    /\ UNCHANGED <<response, events, batch, files, export>>

ConstructClient ==
    /\ pc = "idle"
    /\ \E token \in Tokens, env \in Tokens :
        /\ client' = client_init(token, env).client
        /\ outcome' = client_init(token, env).outcome
        /\ args' = [NoArgs EXCEPT !.token = token, !.env = env]
    /\ pc' = "done"
    /\ op' = "client.__init__"
    /\ UNCHANGED <<response, events, batch, files, export>>

Classify ==
    /\ Ready
    /\ \E s \in Scores :
        /\ args' = [NoArgs EXCEPT !.score = s]
        /\ outcome' = [Return(EmptyDict) EXCEPT !.level = _get_competition_level(s)]
    /\ pc' = "done"
    /\ op' = "_get_competition_level"
    /\ UNCHANGED <<client, response, events, batch, files, export>>

ClassifyClient ==
    /\ ReadyClient
    /\ \E s \in Scores :
        /\ args' = [NoArgs EXCEPT !.score = s]
        /\ outcome' = [Return(EmptyDict) EXCEPT !.level = _get_level(s, Thresholds)]
    /\ pc' = "done"
    /\ op' = "_get_level"
    /\ UNCHANGED <<client, response, events, batch, files, export>>

AnalyzeKeyword ==
    /\ Ready
    /\ \E kw \in Keywords, d \in Delays :
        \E resp \in AnalysisResponses(kw) :
            LET r == analyze_keyword(kw, d, 0, resp)
            IN  /\ args' = [NoArgs EXCEPT !.keyword = kw, !.delay = d]
                /\ response' = r.response
                /\ events' = r.events
                /\ outcome' = r.outcome
    /\ pc' = "done"
    /\ op' = "analyze_keyword"
    /\ UNCHANGED <<client, batch, files, export>>

\* analyze_multiple_keywords: results = {} and the loop is entered
BatchStart ==
    /\ Ready
    /\ \E kws \in SeqsUpTo(ShortKeywords, MaxBatch), d \in Delays :
        args' = [NoArgs EXCEPT !.keywords = kws, !.delay = d]
    /\ pc' = "batch"
    /\ op' = "analyze_multiple_keywords"
    /\ batch' = [i |-> 1, results |-> <<>>, log |-> <<>>]
    /\ UNCHANGED <<client, response, events, outcome, files, export>>

\* mutant: no try/except around the call, a failure leaves the loop
BatchStep_propagate ==
    /\ pc = "batch"
    /\ batch.i <= Len(args.keywords)
    /\ LET kw == args.keywords[batch.i]
       IN  \E resp \in BatchResponses(kw) :
            LET r == analyze_keyword(kw, args.delay, Elapsed(events), resp)
            IN  /\ response' = r.response
                /\ events' = events \o r.events
                /\ IF r.outcome.status = "ok"
                   THEN /\ batch' = [i |-> batch.i + 1,
                                     results |-> SetItem(batch.results, kw, r.outcome.value),
                                     log |-> Append(batch.log, r.outcome)]
                        /\ UNCHANGED <<pc, outcome>>
                   ELSE /\ batch' = [batch EXCEPT !.log = Append(batch.log, r.outcome)]
                        /\ pc' = "done"
                        /\ outcome' = r.outcome
    /\ UNCHANGED <<client, op, args, files, export>>

\* mutant: after a successful analysis the loop moves on by two keywords
BatchStep_skip ==
    /\ pc = "batch"
    /\ batch.i <= Len(args.keywords)
    /\ LET kw == args.keywords[batch.i]
       IN  \E resp \in BatchResponses(kw) :
            LET r == analyze_keyword(kw, args.delay, Elapsed(events), resp)
            IN  /\ batch' = [i |-> batch.i + (IF r.outcome.status = "ok" THEN 2 ELSE 1),
                             results |-> SetItem(batch.results, kw, batch_entry(r.outcome)),
                             log |-> Append(batch.log, r.outcome)]
                /\ response' = r.response
                /\ events' = events \o r.events
    /\ UNCHANGED <<client, pc, op, args, outcome, files, export>>

\* one turn of the loop: analyze_keyword(keyword, delay), its result or
\* {'error': str(e)} stored under the keyword
BatchStep ==
    /\ pc = "batch"
    /\ batch.i <= Len(args.keywords)
    /\ LET kw == args.keywords[batch.i]
       IN  \E resp \in BatchResponses(kw) :
            LET r == analyze_keyword(kw, args.delay, Elapsed(events), resp)
            IN  /\ batch' = [i |-> batch.i + 1,
                             results |-> SetItem(batch.results, kw, batch_entry(r.outcome)),
                             log |-> Append(batch.log, r.outcome)]
                /\ response' = r.response
                /\ events' = events \o r.events
    /\ UNCHANGED <<client, pc, op, args, outcome, files, export>>

\* return results
BatchReturn ==
    /\ pc = "batch"
    /\ batch.i > Len(args.keywords)
    /\ outcome' = Return(EmptyDict)
    /\ pc' = "done"
    /\ UNCHANGED <<client, op, args, response, events, batch, files, export>>

AnalyzeKeywordClient ==
    /\ ReadyClient
    /\ \E kw \in Keywords, d \in Delays, resp \in ClientResponses :
        LET r == client_analyze_keyword(kw, d, 0, resp)
        IN  /\ args' = [NoArgs EXCEPT !.keyword = kw, !.delay = d]
            /\ response' = r.response
            /\ events' = r.events
            /\ outcome' = r.outcome
    /\ pc' = "done"
    /\ op' = "client.analyze_keyword"
    /\ UNCHANGED <<client, batch, files, export>>

\* client.py analyze_multiple_keywords: results = {} and the loop is entered
BatchStartClient ==
    /\ ReadyClient
    /\ \E kws \in SeqsUpTo(ShortKeywords, MaxBatch), d \in Delays :
        args' = [NoArgs EXCEPT !.keywords = kws, !.delay = d]
    /\ pc' = "client.batch"
    /\ op' = "client.analyze_multiple_keywords"
    /\ batch' = [i |-> 1, results |-> <<>>, log |-> <<>>]
    /\ UNCHANGED <<client, response, events, outcome, files, export>>

\* one turn of the loop of client.py: analyze_keyword(keyword, delay), its
\* result or {'error': str(e)} stored under the keyword
BatchStepClient ==
    /\ pc = "client.batch"
    /\ batch.i <= Len(args.keywords)
    /\ LET kw == args.keywords[batch.i]
       IN  \E resp \in ClientBatchResponses :
            LET r == client_analyze_keyword(kw, args.delay, Elapsed(events), resp)
            IN  /\ batch' = [i |-> batch.i + 1,
                             results |-> SetItem(batch.results, kw, batch_entry(r.outcome)),
                             log |-> Append(batch.log, r.outcome)]
                /\ response' = r.response
                /\ events' = events \o r.events
    /\ UNCHANGED <<client, pc, op, args, outcome, files, export>>

\* return results
BatchReturnClient ==
    /\ pc = "client.batch"
    /\ batch.i > Len(args.keywords)
    /\ outcome' = Return(EmptyDict)
    /\ pc' = "done"
    /\ UNCHANGED <<client, op, args, response, events, batch, files, export>>

GetMatchingKeywords ==
    /\ Ready
    /\ \E kw \in ShortKeywords, d \in Delays, resp \in SearchResponses :
        LET r == get_matching_keywords(kw, d, 0, resp)
        IN  /\ args' = [NoArgs EXCEPT !.keyword = kw, !.delay = d]
            /\ response' = r.response
            /\ events' = r.events
            /\ outcome' = r.outcome
    /\ pc' = "done"
    /\ op' = "get_matching_keywords"
    /\ UNCHANGED <<client, batch, files, export>>

GetQuestions ==
    /\ Ready
    /\ \E kw \in ShortKeywords, d \in Delays, resp \in SearchResponses :
        LET r == get_questions(kw, d, 0, resp)
        IN  /\ args' = [NoArgs EXCEPT !.keyword = kw, !.delay = d]
            /\ response' = r.response
            /\ events' = r.events
            /\ outcome' = r.outcome
    /\ pc' = "done"
    /\ op' = "get_questions"
    /\ UNCHANGED <<client, batch, files, export>>

GetRelatedKeywords ==
    /\ Ready
    /\ \E kw \in ShortKeywords, d \in Delays, resp \in RelatedResponses :
        LET r == get_related_keywords(kw, d, 0, resp)
        IN  /\ args' = [NoArgs EXCEPT !.keyword = kw, !.delay = d]
            /\ response' = r.response
            /\ events' = r.events
            /\ outcome' = r.outcome
    /\ pc' = "done"
    /\ op' = "get_related_keywords"
    /\ UNCHANGED <<client, batch, files, export>>

LastOf(rs) == IF rs = <<>> THEN NoResponse ELSE rs[Len(rs)]

ExportToCsv ==
    /\ Ready
    /\ \E kw \in ExportKeywords, d \in ExportDelays, of \in OutputFiles, io \in IOs,
          r1 \in ExportRelated, r2 \in ExportMatching, r3 \in ExportQuestions :
        \E fs \in Trees(".", <<output_path(kw, of)>>) :
            LET r == export_to_csv(kw, of, d, 0, <<r1, r2, r3>>, io, fs)
            IN  /\ args' = [NoArgs EXCEPT !.keyword = kw, !.delay = d, !.output_file = of]
                /\ response' = LastOf(r.responses)
                /\ events' = r.events
                /\ outcome' = r.outcome
                /\ files' = r.files
                /\ export' = [io |-> io, before |-> fs, responses |-> r.responses,
                              path |-> r.path, file_paths |-> <<>>]
    /\ pc' = "done"
    /\ op' = "export_to_csv"
    /\ UNCHANGED <<client, batch>>

\* the three files export_separate_csvs writes for a keyword
separate_paths(kw, dir) ==
    <<join(dir, safe_keyword(kw) \o <<"_related.csv">>),
      join(dir, safe_keyword(kw) \o <<"_matching.csv">>),
      join(dir, safe_keyword(kw) \o <<"_questions.csv">>)>>

ExportSeparateCsvs ==
    /\ Ready
    /\ \E kw \in ExportKeywords, d \in ExportDelays, dir \in OutputDirs, io \in IOs,
          r1 \in ExportRelated, r2 \in ExportMatching, r3 \in ExportQuestions :
        \E fs \in Trees(dir, separate_paths(kw, dir)) :
            LET r == export_separate_csvs(kw, dir, d, 0, <<r1, r2, r3>>, io, fs)
            IN  /\ args' = [NoArgs EXCEPT !.keyword = kw, !.delay = d, !.output_dir = dir]
                /\ response' = LastOf(r.responses)
                /\ events' = r.events
                /\ outcome' = r.outcome
                /\ files' = r.files
                /\ export' = [io |-> io, before |-> fs, responses |-> r.responses,
                              path |-> None_, file_paths |-> r.file_paths]
    /\ pc' = "done"
    /\ op' = "export_separate_csvs"
    /\ UNCHANGED <<client, batch>>

\* the caller takes the result; the client object stays
Finish ==
    /\ pc = "done"
    /\ pc' = "idle"
    /\ op' = ""
    /\ args' = NoArgs
    /\ response' = NoResponse
    /\ events' = <<>>
    /\ outcome' = NoOutcome
    /\ batch' = NoBatch
    /\ files' = NoFiles
    /\ export' = NoExport
    /\ UNCHANGED client

Next ==
    \/ Construct
    \/ ConstructClient
    \/ Classify
    \/ ClassifyClient
    \/ AnalyzeKeyword
    \/ BatchStart
    \/ BatchStep
    \/ BatchReturn
    \/ AnalyzeKeywordClient
    \/ BatchStartClient
    \/ BatchStepClient
    \/ BatchReturnClient
    \/ GetMatchingKeywords
    \/ GetQuestions
    \/ GetRelatedKeywords
    \/ ExportToCsv
    \/ ExportSeparateCsvs
    \/ Finish

Spec == Init /\ [][Next]_vars

---------------------------------------------------------------------------
(* Properties *)

Done(name) == pc = "done" /\ op = name

QueryOps == {"analyze_keyword", "get_matching_keywords", "get_related_keywords", "get_questions"}

\* the per-keyword map of the response consumed by the call
UpstreamMap == compvol_of(response.body)

\* i is the first variation of the analysed keyword that is a key of the map
FirstPresent(i) ==
    /\ HasKey(UpstreamMap, variations(args.keyword)[i])
    /\ \A j \in 1..(i - 1) : ~HasKey(UpstreamMap, variations(args.keyword)[j])

\* the caller sees the metrics object m: each field as stored, 'N/A' if missing
ShowsMetrics(m) ==
    /\ IsSome(outcome.value.data)
    /\ \A f \in MetricFields :
        Val(outcome.value.data)[f] = (IF f \in DOMAIN m THEN Some(m[f]) ELSE None_)

NotFound(o) == o.status = "raise" /\ o.msg.text = "No analysis data found for keyword"

\* C1: the classifier (both implementations) returns Very Low for s <= 20,
\* Low for 20 < s <= 40, Medium for 40 < s <= 60, High for 60 < s <= 80 and
\* Very High for s > 80, for every score, below 0 and above 100 included.
C1_LevelBands ==
    (pc = "done" /\ op \in {"_get_competition_level", "_get_level"}) =>
        LET s == args.score
            l == outcome.level
        IN  /\ (l = "Very Low") <=> (s <= 20)
            /\ (l = "Low") <=> (20 < s /\ s <= 40)
            /\ (l = "Medium") <=> (40 < s /\ s <= 60)
            /\ (l = "High") <=> (60 < s /\ s <= 80)
            /\ (l = "Very High") <=> (s > 80)

C1_Witness ==
    /\ Done("_get_competition_level")
    /\ args.score = 80
    /\ outcome.level = "High"

\* C2: constructing the client with an absent or empty authorization token
\* (none passed and none in the environment) fails with ValueError and
\* leaves no usable client.
C2_EmptyTokenRejected ==
    (pc = "done" /\ op \in {"__init__", "client.__init__"}
        /\ args.token = "" /\ args.env = "") =>
        /\ outcome.status = "raise"
        /\ outcome.exc = "ValueError"
        /\ ~client.constructed

\* C3: whenever one of the four variations of the analysed keyword is a key
\* of the upstream map, analyze_keyword succeeds with the metrics stored under
\* the first such variation in the order exact, lower, upper, title.
C3_FirstVariantWins ==
    (Done("analyze_keyword") /\ response.kind = "object") =>
        \A i \in 1..4 :
            FirstPresent(i) =>
                /\ outcome.status = "ok"
                /\ ShowsMetrics(Lookup(UpstreamMap, variations(args.keyword)[i]))

\* C4: when analyze_keyword succeeds through a variation that differs from
\* the input, the result's keyword is the string the caller passed and the
\* metrics are those of the matched upstream entry.
C4_OriginalCasingKept ==
    (Done("analyze_keyword") /\ outcome.status = "ok") =>
        \A i \in 2..4 :
            FirstPresent(i) =>
                /\ outcome.value.keyword = Some(args.keyword)
                /\ ShowsMetrics(Lookup(UpstreamMap, variations(args.keyword)[i]))

C4_Witness ==
    /\ Done("analyze_keyword")
    /\ outcome.status = "ok"
    /\ args.keyword = <<"a", "A">>
    /\ FirstPresent(4)
    /\ outcome.value.keyword = Some(<<"a", "A">>)
    /\ ShowsMetrics(PartMetrics)

\* C5 as stated, on a non-empty JSON object: analyze_keyword fails with the
\* not-found error carrying the list of available keys whenever no variation
\* is a key of the map or the stats container is absent.
C5_NotFoundAlsoWithoutStats ==
    (Done("analyze_keyword") /\ response.kind = "object" /\ Truthy(response.body)
        /\ \A i \in 1..4 : ~HasKey(UpstreamMap, variations(args.keyword)[i])) =>
        /\ NotFound(outcome)
        /\ outcome.msg.keys = Some(KeysOf(UpstreamMap))

\* C5 amended: with the stats container present and no variation a key of the
\* map, analyze_keyword fails with the not-found error carrying the keys of
\* the map (the empty list for an empty map); with the stats container absent
\* it fails with the no-data error, which carries no key list.
C5_NotFoundCarriesKeys ==
    (Done("analyze_keyword") /\ response.kind = "object"
        /\ \A i \in 1..4 : ~HasKey(UpstreamMap, variations(args.keyword)[i])) =>
        IF IsSome(response.body.search_stats)
        THEN /\ NotFound(outcome)
             /\ outcome.exc = "Exception"
             /\ outcome.msg.keys = Some(KeysOf(UpstreamMap))
             /\ (UpstreamMap = <<>> => outcome.msg.keys = Some(<<>>))
        ELSE /\ outcome.status = "raise"
             /\ outcome.msg.text = "No data returned for keyword"
             /\ outcome.msg.keys = None_

C5_Witness ==
    /\ Done("analyze_keyword")
    /\ args.keyword = <<"a">>
    /\ IsSome(response.body.search_stats)
    /\ KeysOf(UpstreamMap) = <<OtherKey>>
    /\ NotFound(outcome)
    /\ outcome.msg.keys = Some(<<OtherKey>>)

\* C6: in each of the four query methods a keyword that is empty or only
\* whitespace raises ValueError before any delay and before any request.
C6_BlankKeywordRejectedFirst ==
    (pc = "done" /\ op \in QueryOps /\ strip(args.keyword) = <<>>) =>
        /\ outcome.status = "raise"
        /\ outcome.exc = "ValueError"
        /\ events = <<>>
        /\ response.kind = "none"

C6_Witness ==
    /\ Done("analyze_keyword")
    /\ args.keyword = <<" ">>
    /\ args.delay = 1
    /\ outcome.exc = "ValueError"
    /\ events = <<>>

IsAnalysis(d) == DictKeys(d) = {"keyword", "timestamp", "data", "levels"}

IsErrorOnly(d) == DictKeys(d) = {"error"}

\* the turns of the loop that handled keyword k
Turns(k) == {i \in 1..Len(batch.log) : args.keywords[i] = k}

LastTurn(k) == CHOOSE i \in Turns(k) : \A j \in Turns(k) : j <= i

\* C7: when analyze_multiple_keywords has returned, the keys of the result
\* are exactly the input keywords, every entry is a complete analysis result
\* or an error descriptor, and a repeated keyword holds the outcome of its
\* last occurrence.
C7_BatchResultShape ==
    Done("analyze_multiple_keywords") =>
        /\ {batch.results[i].key : i \in 1..Len(batch.results)}
             = {args.keywords[i] : i \in 1..Len(args.keywords)}
        /\ \A i, j \in 1..Len(batch.results) :
             batch.results[i].key = batch.results[j].key => i = j
        /\ \A i \in 1..Len(batch.results) :
             LET k == batch.results[i].key
                 e == batch.results[i].val
                 o == batch.log[LastTurn(k)]
             IN  /\ IsAnalysis(e) \/ IsErrorOnly(e)
                 /\ o.status = "ok" => e = o.value /\ IsAnalysis(e)
                 /\ o.status = "raise" => e.error = Some(o.msg) /\ IsErrorOnly(e)

C7_Witness ==
    /\ Done("analyze_multiple_keywords")
    /\ args.keywords = <<<<"a">>, <<"a">>>>
    /\ batch.log[1].status = "ok"
    /\ batch.log[2].status = "raise"
    /\ Len(batch.results) = 1
    /\ IsErrorOnly(batch.results[1].val)

\* C8: analyze_multiple_keywords never propagates a failure of one keyword:
\* the failure's message is recorded for that keyword, every later keyword is
\* still attempted, and the batch returns normally.
C8_BatchIsolatesFailures ==
    (op = "analyze_multiple_keywords") =>
        /\ Len(batch.log) = batch.i - 1
        /\ pc = "done" =>
             /\ outcome.status = "ok"
             /\ Len(batch.log) = Len(args.keywords)
        /\ \A i \in 1..Len(batch.log) :
             (batch.log[i].status = "raise" /\ i = LastTurn(args.keywords[i])) =>
                 /\ HasKey(batch.results, args.keywords[i])
                 /\ Lookup(batch.results, args.keywords[i]).error = Some(batch.log[i].msg)

C8_Witness ==
    /\ Done("analyze_multiple_keywords")
    /\ args.keywords = <<<<" ">>, <<"A">>>>
    /\ batch.log[1].exc = "ValueError"
    /\ batch.log[2].status = "ok"
    /\ outcome.status = "ok"

ListField == IF op = "get_matching_keywords" THEN response.body.permutations
             ELSE response.body.questions

\* C9: get_matching_keywords and get_questions on a non-empty JSON object
\* succeed, with count the length of the named list (permutations, questions)
\* when present and 0 when absent, and data the raw response unchanged.
C9_CountOfNamedList ==
    (pc = "done" /\ op \in {"get_matching_keywords", "get_questions"}
        /\ response.kind = "object" /\ Truthy(response.body)) =>
        /\ outcome.status = "ok"
        /\ outcome.value.count =
             Some(IF IsSome(ListField) THEN Len(Val(ListField)) ELSE 0)
        /\ outcome.value.data_raw = Some(response.body)

C9_Witness ==
    /\ Done("get_matching_keywords")
    /\ response.kind = "object"
    /\ ~IsSome(response.body.permutations)
    /\ IsSome(response.body.questions)
    /\ Len(Val(response.body.questions)) = 2
    /\ outcome.status = "ok"
    /\ outcome.value.count = Some(0)

NoRelatedField(body) ==
    /\ ~IsSome(body.keywords)
    /\ ~IsSome(body.related_keywords)
    /\ ~(IsSome(body.search_stats) /\ IsSome(Val(body.search_stats).related))

\* C10 as stated: for every related-keywords response with none of keywords,
\* related_keywords and search_stats.related, get_related_keywords succeeds
\* with data [] and count 0.
C10_NoFieldNeverAnError ==
    (Done("get_related_keywords") /\ response.kind = "object"
        /\ NoRelatedField(response.body)) =>
        /\ outcome.status = "ok"
        /\ outcome.value.data_list = Some(<<>>)
        /\ outcome.value.count = Some(0)

\* C10 amended: for every non-empty related-keywords response with none of
\* the three fields, get_related_keywords succeeds with data [] and count 0;
\* the empty object has none of the fields either and raises the no-data error.
C10_NoFieldEmptyList ==
    (Done("get_related_keywords") /\ response.kind = "object"
        /\ NoRelatedField(response.body)) =>
        IF Truthy(response.body)
        THEN /\ outcome.status = "ok"
             /\ outcome.value.data_list = Some(<<>>)
             /\ outcome.value.count = Some(0)
        ELSE /\ outcome.status = "raise"
             /\ outcome.msg.text = "No related keywords found for"

C10_Witness ==
    /\ Done("get_related_keywords")
    /\ response.kind = "object"
    /\ response.body.search_stats = Some(NoStats)
    /\ NoRelatedField(response.body)
    /\ outcome.status = "ok"
    /\ outcome.value.data_list = Some(<<>>)
    /\ outcome.value.count = Some(0)


AuxOps == {"get_matching_keywords", "get_related_keywords", "get_questions"}

\* the candidate lists of a related-keywords response, highest priority first
RelatedFields(body) ==
    <<body.keywords, body.related_keywords,
      IF IsSome(body.search_stats) THEN Val(body.search_stats).related ELSE None_>>

\* the list the calling query reads from the response: Some(list), or None_
\* when the response has no list for it
NamedList ==
    IF op = "get_matching_keywords" THEN response.body.permutations
    ELSE IF op = "get_questions" THEN response.body.questions
    ELSE LET fs == RelatedFields(response.body)
             present == {i \in 1..3 : IsSome(fs[i])}
         IN  IF present = {} THEN None_
             ELSE fs[CHOOSE i \in present : \A j \in present : i <= j]

NoDataTexts ==
    {"No matching keywords found for", "No related keywords found for",
     "No questions found for"}

\* C11: on a null or empty JSON body each auxiliary query raises the no-data
\* error and returns no envelope, while a non-empty response whose list is
\* empty or missing is a success with count 0; the caller can tell them apart.
C11_FalsyBodyVersusEmptyList ==
    (pc = "done" /\ op \in AuxOps /\ response.kind \in {"null", "object"}) =>
        IF response.kind = "null" \/ ~Truthy(response.body)
        THEN /\ outcome.status = "raise"
             /\ outcome.msg.text \in NoDataTexts
             /\ outcome.value = EmptyDict
        ELSE (NamedList = None_ \/ NamedList = Some(<<>>)) =>
                /\ outcome.status = "ok"
                /\ outcome.value.count = Some(0)
                /\ {"keyword", "timestamp", "type", "data", "count"} \subseteq DictKeys(outcome.value)

C11_Witness ==
    /\ Done("get_questions")
    /\ response.kind = "null"
    /\ outcome.status = "raise"
    /\ outcome.msg.text = "No questions found for"

\* C12: get_related_keywords takes the list of the first field present in
\* the order keywords, related_keywords, search_stats.related (a present but
\* empty list still wins), and count is the length of the chosen list.
C12_RelatedPriority ==
    (Done("get_related_keywords") /\ response.kind = "object" /\ Truthy(response.body)) =>
        /\ outcome.status = "ok"
        /\ \A i \in 1..3 :
             (/\ IsSome(RelatedFields(response.body)[i])
              /\ \A j \in 1..(i - 1) : ~IsSome(RelatedFields(response.body)[j])) =>
                /\ outcome.value.data_list = RelatedFields(response.body)[i]
                /\ outcome.value.count = Some(Len(Val(RelatedFields(response.body)[i])))

C12_Witness ==
    /\ Done("get_related_keywords")
    /\ response.body.keywords = Some(<<>>)
    /\ response.body.related_keywords = Some(<<StrItem>>)
    /\ outcome.status = "ok"
    /\ outcome.value.data_list = Some(<<>>)
    /\ outcome.value.count = Some(0)


\* C13: an invocation of a query method sends at most one HTTP request; when
\* the exchange fails (transport error, non-2xx status, undecodable body)
\* the method raises Exception("<prefix>: <cause>") with the text of the
\* original exception, and no second request is sent.
C13_OneRequestNoRetry ==
    (pc = "done" /\ op \in QueryOps) =>
        /\ Cardinality(Gets(events)) <= 1
        /\ response.kind \in {"RequestException", "JSONDecodeError"} =>
             /\ Cardinality(Gets(events)) = 1
             /\ events[Len(events)].e = "get"
             /\ outcome.status = "raise"
             /\ outcome.exc = "Exception"
             /\ outcome.msg.prefix \in {"Network error", "Invalid JSON response"}
             /\ outcome.msg.text = response.cause
             /\ response.cause # ""
             /\ outcome.value = EmptyDict

C13_Witness ==
    /\ Done("get_matching_keywords")
    /\ response = HTTPError
    /\ Cardinality(Gets(events)) = 1
    /\ outcome.status = "raise"
    /\ outcome.msg.prefix = "Network error"
    /\ outcome.msg.text = "404 Client Error: Not Found"


\* position of a level in the order Very Low < Low < Medium < High < Very High
Severity(level) == CHOOSE i \in 1..Len(levels) : levels[i] = level

\* the level the classifier under call gives to another score
LevelOf(s) ==
    IF op = "_get_level" THEN _get_level(s, Thresholds) ELSE _get_competition_level(s)

\* C17: the classifier is monotonic: a score no greater than the classified
\* one never gets a more severe level, and a score no smaller never a less
\* severe one (both the if/elif ladder and the threshold loop).
C17_ClassifierMonotonic ==
    (pc = "done" /\ op \in {"_get_competition_level", "_get_level"}) =>
        /\ outcome.level \in {levels[i] : i \in 1..Len(levels)}
        /\ \A s \in Scores :
             /\ s <= args.score => Severity(LevelOf(s)) <= Severity(outcome.level)
             /\ s >= args.score => Severity(LevelOf(s)) >= Severity(outcome.level)

\* a classified score with strictly milder and strictly more severe neighbours
C17_Witness ==
    /\ Done("_get_competition_level")
    /\ outcome.level = "Medium"
    /\ \E s1, s2 \in Scores :
         /\ s1 < args.score /\ args.score < s2
         /\ Severity(LevelOf(s1)) < Severity(outcome.level)
         /\ Severity(outcome.level) < Severity(LevelOf(s2))


\* the turns of the batch whose keyword passes validation, and so send a request
ValidTurns == {i \in 1..Len(batch.log) : strip(args.keywords[i]) # <<>>}

\* position in the event log of the n-th request
NthGet(n) ==
    CHOOSE g \in Gets(events) : Cardinality({h \in Gets(events) : h < g}) = n - 1

\* which request belongs to turn i: the number of valid turns up to i
RankOf(i) == Cardinality({j \in ValidTurns : j <= i})

\* the two analyze_multiple_keywords, of vidiq_api.py and of client.py
BatchOps == {"analyze_multiple_keywords", "client.analyze_multiple_keywords"}

\* the keyword field of a result for the input keyword k: as passed in
\* vidiq_api.py, trimmed in client.py
ResultKeyword(k) == IF client.module = "client" THEN strip(k) ELSE k

\* C18: analyze_multiple_keywords (both implementations) handles the keywords
\* one at a time in input order: every finished turn holds the outcome of its
\* own keyword, only finished turns have sent a request, the requests follow
\* the input order, a success does not skip the next keyword, and between
\* two requests nothing but the one configured delay happens.
C18_BatchSequentialInOrder ==
    (op \in BatchOps) =>
        /\ Len(batch.log) = batch.i - 1
        /\ pc = "done" => Len(batch.log) = Len(args.keywords)
        /\ \A i \in 1..Len(batch.log) :
             /\ batch.log[i].exc = "ValueError" <=> i \notin ValidTurns
             /\ batch.log[i].status = "ok" =>
                  batch.log[i].value.keyword = Some(ResultKeyword(args.keywords[i]))
        /\ Cardinality(Gets(events)) = Cardinality(ValidTurns)
        /\ \A i \in ValidTurns :
             events[NthGet(RankOf(i))].term = strip(args.keywords[i])
        /\ \A n \in 1..(Cardinality(Gets(events)) - 1) :
             IF args.delay > 0
             THEN /\ NthGet(n + 1) = NthGet(n) + 2
                  /\ events[NthGet(n) + 1] = SleepEv(args.delay)
             ELSE NthGet(n + 1) = NthGet(n) + 1

C18_Witness ==
    /\ Done("analyze_multiple_keywords")
    /\ args.keywords = <<<<"A">>, <<"a">>>>
    /\ args.delay = 1
    /\ batch.log[1].status = "ok"
    /\ batch.log[2].status = "raise"
    /\ Len(events) = 4
    /\ events[2].term = <<"A">> /\ events[3] = SleepEv(1) /\ events[4].term = <<"a">>

\* C19: in a query method called with a valid keyword, a positive delay
\* causes exactly one wait of that length, finished before the request is
\* sent; a zero or negative delay causes no wait; inside a batch every
\* request is preceded by its own wait.
C19_DelayBeforeRequest ==
    /\ (pc = "done" /\ op \in QueryOps /\ strip(args.keyword) # <<>>) =>
          IF args.delay > 0
          THEN /\ Len(events) = 2
               /\ events[1] = SleepEv(args.delay)
               /\ events[2].e = "get"
          ELSE /\ Len(events) = 1
               /\ events[1].e = "get"
    /\ (op = "analyze_multiple_keywords") =>
          /\ \A g \in Gets(events) :
               args.delay > 0 => (g > 1 /\ events[g - 1] = SleepEv(args.delay))
          /\ Cardinality(Slept(events))
               = (IF args.delay > 0 THEN Cardinality(Gets(events)) ELSE 0)

C19_Witness ==
    /\ Done("get_questions")
    /\ args.delay = 1
    /\ events = <<SleepEv(1),
                  [GetEv(keyword_search_url, strip(args.keyword)) EXCEPT !.part = "questions"]>>


\* C20: for a keyword with leading or trailing whitespace, analyze_keyword
\* uses the trimmed string both in the request and in the variant lookup:
\* whenever a variation of the trimmed keyword is a key of the upstream map
\* (every entry of the map holding at least one metric), the call succeeds.
C20_TrimmedKeywordLookedUp ==
    (/\ Done("analyze_keyword")
     /\ response.kind = "object"
     /\ strip(args.keyword) # <<>>
     /\ strip(args.keyword) # args.keyword
     /\ \A i \in 1..Len(UpstreamMap) : DOMAIN UpstreamMap[i].val # {}
     /\ \E i \in 1..4 : HasKey(UpstreamMap, variations(strip(args.keyword))[i])) =>
        /\ events[Len(events)].term = strip(args.keyword)
        /\ outcome.status = "ok"


ExportTypes == <<"related", "matching", "questions">>

\* the type column of the rows of each export type
TypeTags == <<"related", "matching", "question">>

\* the upstream list an export reads from the response to its i-th query,
\* empty when the response has none
PickedList(i) ==
    LET body == export.responses[i].body
        fs == RelatedFields(body)
        present == {k \in 1..3 : IsSome(fs[k])}
        o == IF i = 1
             THEN (IF present = {} THEN None_
                   ELSE fs[CHOOSE k \in present : \A j \in present : k <= j])
             ELSE IF i = 2 THEN body.permutations
             ELSE body.questions
    IN  IF IsSome(o) THEN Val(o) ELSE <<>>

\* the i-th query of the export was answered with a non-empty JSON object
QueryOk(i) ==
    /\ i <= Len(export.responses)
    /\ export.responses[i].kind = "object"
    /\ Truthy(export.responses[i].body)

\* the keyword column of the row made from an upstream element
Label(item) ==
    IF item.isdict /\ IsSome(item.keyword) THEN Val(item.keyword)
    ELSE IF item.isdict THEN str(item)
    ELSE item.text

FileAt(tree, path) ==
    IF HasKey(tree.entries, path) THEN Some(Lookup(tree.entries, path)) ELSE None_

\* lines from..(from + Len(list) - 1) of a file are the rows of the list, in
\* the order of the list, with the given type
RowsMatch(lines, from, list, tag) ==
    \A k \in 1..Len(list) :
        /\ from + k - 1 <= Len(lines)
        /\ lines[from + k - 1][1] = Label(list[k])
        /\ lines[from + k - 1][2] = <<tag>>
        /\ lines[from + k - 1][6] = args.keyword

\* C14: after a successful export_to_csv the file holds the header line
\* once, then one line per upstream element: the related elements, then the
\* matching ones, then the questions, each group in upstream order.
C14_OneFileHeaderThenRows ==
    (Done("export_to_csv") /\ outcome.status = "ok") =>
        /\ IsSome(export.path)
        /\ Len(export.responses) = 3
        /\ HasKey(files.entries, Val(export.path))
        /\ LET lines == Lookup(files.entries, Val(export.path))
               n1 == Len(PickedList(1))
               n2 == Len(PickedList(2))
               n3 == Len(PickedList(3))
           IN  /\ lines[1] = headers
               /\ \A k \in 2..Len(lines) : lines[k] # headers
               /\ Len(lines) = 1 + n1 + n2 + n3
               /\ RowsMatch(lines, 2, PickedList(1), "related")
               /\ RowsMatch(lines, 2 + n1, PickedList(2), "matching")
               /\ RowsMatch(lines, 2 + n1 + n2, PickedList(3), "question")

C14_Witness ==
    /\ Done("export_to_csv")
    /\ outcome.status = "ok"
    /\ PickedList(1) = <<DictItem, StrItem>>
    /\ PickedList(2) = <<StrItem>>
    /\ PickedList(3) = <<DictItem>>
    /\ Len(Lookup(files.entries, Val(export.path))) = 5

\* C15: when the queries of an export succeed but yield no rows (all three
\* lists for export_to_csv, the list of one type for export_separate_csvs),
\* the call raises the export error "No data to export" and the file of the
\* empty row set is neither created nor overwritten.
C15_NoRowsNoFile ==
    /\ (Done("export_to_csv") /\ QueryOk(1) /\ QueryOk(2) /\ QueryOk(3)
        /\ \A i \in 1..3 : PickedList(i) = <<>>) =>
          /\ outcome.status = "raise"
          /\ outcome.msg.outer = "Failed to export CSV"
          /\ outcome.msg.text = "No data to export"
          /\ files = export.before
          /\ \A k \in 1..Len(events) : events[k].e # "open"
    /\ \A i \in 1..3 :
         (Done("export_separate_csvs") /\ Len(export.responses) = i /\ QueryOk(i)
          /\ PickedList(i) = <<>>) =>
            LET p == separate_paths(args.keyword, args.output_dir)[i]
            IN  /\ outcome.status = "raise"
                /\ outcome.msg.outer = "Failed to export separate CSVs"
                /\ outcome.msg.text = "No data to export"
                /\ FileAt(files, p) = FileAt(export.before, p)
                /\ \A k \in 1..Len(events) : events[k] # OpenEv(p)

C15_Witness ==
    /\ Done("export_to_csv")
    /\ QueryOk(1) /\ QueryOk(2) /\ QueryOk(3)
    /\ \A i \in 1..3 : PickedList(i) = <<>>
    /\ outcome.status = "raise"
    /\ outcome.msg.text = "No data to export"
    /\ FileAt(files, output_path(args.keyword, args.output_file)) = Some(OldLines)

\* C16: a successful export_separate_csvs returns exactly one path for each
\* of related, matching and questions, the paths differ, and each file holds
\* the header line and then exactly the rows of its own type.
C16_SeparateFilesPerType ==
    (Done("export_separate_csvs") /\ outcome.status = "ok") =>
        /\ KeysOf(export.file_paths) = ExportTypes
        /\ \A i, j \in 1..3 :
             export.file_paths[i].val = export.file_paths[j].val => i = j
        /\ \A i \in 1..3 :
             /\ QueryOk(i)
             /\ HasKey(files.entries, export.file_paths[i].val)
             /\ LET lines == Lookup(files.entries, export.file_paths[i].val)
                IN  /\ lines[1] = headers
                    /\ Len(lines) = 1 + Len(PickedList(i))
                    /\ Len(lines) > 1
                    /\ RowsMatch(lines, 2, PickedList(i), TypeTags[i])

C16_Witness ==
    /\ Done("export_separate_csvs")
    /\ outcome.status = "ok"
    /\ args.output_dir = "out"
    /\ PickedList(1) = <<StrItem, DictItem>>
    /\ PickedList(2) = <<DictItem>>
    /\ PickedList(3) = <<StrItem>>
    /\ Len(Lookup(files.entries, export.file_paths[1].val)) = 3
    /\ Len(Lookup(files.entries, export.file_paths[3].val)) = 2


\* the lines of the file a successful export_to_csv wrote
ExportedLines == Lookup(files.entries, Val(export.path))

\* the line of the k-th element of the i-th list (1 related, 2 matching,
\* 3 questions), after the header and the earlier lists
LineOf(i, k) ==
    LET before == IF i = 1 THEN 0
                  ELSE IF i = 2 THEN Len(PickedList(1))
                  ELSE Len(PickedList(1)) + Len(PickedList(2))
    IN  ExportedLines[1 + before + k]

\* the text of a score, volume or competition column: the element's field,
\* "N/A" when the element is a string or lacks the field
FieldCell(item, f) ==
    IF item.isdict /\ IsSome(item[f]) THEN <<ToString(Val(item[f]))>> ELSE <<"N/A">>

\* the timestamp of the envelope of the i-th query: the time its request was answered
EnvelopeTime(i) == Elapsed(SubSeq(events, 1, NthGet(i)))

\* every column but the keyword of the row made from item of the i-th list
RowColumns(line, item, i) ==
    /\ line[2] = <<TypeTags[i]>>
    /\ line[3] = FieldCell(item, "score")
    /\ line[4] = FieldCell(item, "volume")
    /\ line[5] = FieldCell(item, "competition")
    /\ line[6] = args.keyword
    /\ line[7] = <<ToString(EnvelopeTime(i))>>

\* C21 as stated: in the rows of an export every field a structured element
\* lacks, the keyword included, is "N/A"; a string element gives its text as
\* keyword and "N/A" for score, volume and competition; every row has the
\* type tag of its list and the source keyword and timestamp of its envelope.
C21_MissingFieldsAreNA ==
    (Done("export_to_csv") /\ outcome.status = "ok") =>
        \A i \in 1..3 : \A k \in 1..Len(PickedList(i)) :
            LET item == PickedList(i)[k]
            IN  /\ RowColumns(LineOf(i, k), item, i)
                /\ LineOf(i, k)[1] =
                     (IF ~item.isdict THEN item.text
                      ELSE IF IsSome(item.keyword) THEN Val(item.keyword)
                      ELSE <<"N/A">>)

\* C21, amended: as above, except that a structured element without a
\* keyword field gets the printed form of the whole element as its keyword
\* (score, volume and competition still default to "N/A").
C21_RowFlattening ==
    (Done("export_to_csv") /\ outcome.status = "ok") =>
        \A i \in 1..3 : \A k \in 1..Len(PickedList(i)) :
            LET item == PickedList(i)[k]
            IN  /\ RowColumns(LineOf(i, k), item, i)
                /\ LineOf(i, k)[1] =
                     (IF ~item.isdict THEN item.text
                      ELSE IF IsSome(item.keyword) THEN Val(item.keyword)
                      ELSE <<ToString(item)>>)

C21_Witness ==
    /\ Done("export_to_csv")
    /\ outcome.status = "ok"
    /\ args.delay = 1
    /\ PickedList(1) = <<StrItem, DictItem>>
    /\ PickedList(2) = <<BareDict>>
    /\ LineOf(1, 1) = <<<<"a">>, <<"related">>, <<"N/A">>, <<"N/A">>, <<"N/A">>, args.keyword, <<"1">>>>
    /\ LineOf(1, 2) = <<<<"A">>, <<"related">>, <<"70">>, <<"N/A">>, <<"30">>, args.keyword, <<"1">>>>
    /\ LineOf(2, 1)[1] = <<ToString(BareDict)>>
    /\ LineOf(2, 1)[4] = <<"5">>
    /\ LineOf(2, 1)[7] = <<"2">>


\* the endpoint and 'part' parameter of the requests of an export, in order
QueryPlan ==
    <<<<related_search_url, "">>, <<keyword_search_url, "permutations">>,
      <<keyword_search_url, "questions">>>>

\* the endpoint and 'part' parameter of the requests sent so far, in order
RequestsSent ==
    [n \in 1..Cardinality(Gets(events)) |-> <<events[NthGet(n)].url, events[NthGet(n)].part>>]

Opens == {k \in 1..Len(events) : events[k].e = "open"}

TotalRows == Len(PickedList(1)) + Len(PickedList(2)) + Len(PickedList(3))

\* C22: export_to_csv sends its requests in the order related, matching,
\* questions; it opens the output file at most once, as its last step, only
\* when all three queries succeeded and gave at least one row; when a query
\* fails no later query is sent, and when a query fails or there is no row
\* the call raises and the directory tree is as it was before the call.
C22_QueriesThenOneWrite ==
    (Done("export_to_csv") /\ strip(args.keyword) # <<>>) =>
        /\ Len(RequestsSent) = Len(export.responses)
        /\ Len(RequestsSent) \in 1..3
        /\ RequestsSent = SubSeq(QueryPlan, 1, Len(RequestsSent))
        /\ \A i \in 1..Len(export.responses) :
             ~QueryOk(i) =>
                /\ Len(export.responses) = i
                /\ outcome.status = "raise"
                /\ outcome.msg.outer = "Failed to export CSV"
                /\ Opens = {}
                /\ files = export.before
        /\ (QueryOk(1) /\ QueryOk(2) /\ QueryOk(3) /\ TotalRows = 0) =>
                /\ outcome.status = "raise"
                /\ Opens = {}
                /\ files = export.before
        /\ \A k \in Opens :
                /\ k = Len(events)
                /\ events[k].path = output_path(args.keyword, args.output_file)
                /\ QueryOk(1) /\ QueryOk(2) /\ QueryOk(3)
                /\ TotalRows >= 1
        /\ outcome.status = "ok" => Opens # {}

\* the second query fails: the third is not sent and an existing file stays
C22_Witness ==
    /\ Done("export_to_csv")
    /\ QueryOk(1) /\ PickedList(1) # <<>>
    /\ Len(export.responses) = 2
    /\ export.responses[2].kind = "RequestException"
    /\ RequestsSent = SubSeq(QueryPlan, 1, 2)
    /\ outcome.status = "raise"
    /\ FileAt(files, output_path(args.keyword, args.output_file)) = Some(OldLines)


\* the step (1 related, 2 matching, 3 questions) at which a failed
\* export_separate_csvs stopped: the last query it sent
FailedStep == Len(export.responses)

\* position in the event log of the open of the i-th file, 0 when never opened
OpenOf(i) ==
    LET p == separate_paths(args.keyword, args.output_dir)[i]
        ks == {k \in 1..Len(events) : events[k] = OpenEv(p)}
    IN  IF ks = {} THEN 0 ELSE CHOOSE k \in ks : TRUE

\* the i-th file holds the header and the rows of the i-th list
WrittenFile(i) ==
    LET got == FileAt(files, separate_paths(args.keyword, args.output_dir)[i])
    IN  /\ IsSome(got)
        /\ Val(got)[1] = headers
        /\ Len(Val(got)) = 1 + Len(PickedList(i))
        /\ RowsMatch(Val(got), 2, PickedList(i), TypeTags[i])

\* C23: export_separate_csvs calls makedirs before any request, then for
\* each type in the order related, matching, questions sends the request
\* and writes the file before the next request; when a step fails the call
\* raises and returns no mapping, the directory exists, the files of the
\* earlier types hold their rows, and the later files are as before.
C23_SeparateNotAtomic ==
    (Done("export_separate_csvs") /\ strip(args.keyword) # <<>>) =>
        /\ events[1] = MakedirsEv(args.output_dir)
        /\ \A k \in 2..Len(events) : events[k].e # "makedirs"
        /\ RequestsSent = SubSeq(QueryPlan, 1, Len(export.responses))
        /\ \A i \in 1..Len(export.responses) :
             /\ OpenOf(i) # 0 => NthGet(i) < OpenOf(i)
             /\ i > 1 => (OpenOf(i - 1) # 0 /\ OpenOf(i - 1) < NthGet(i))
        /\ outcome.exc # "PermissionError" =>
             /\ FailedStep >= 1
             /\ args.output_dir \in files.dirs
        /\ outcome.status = "raise" =>
             /\ export.file_paths = <<>>
             /\ \A j \in 1..3 :
                  IF j < FailedStep
                  THEN WrittenFile(j)
                  ELSE FileAt(files, separate_paths(args.keyword, args.output_dir)[j])
                         = FileAt(export.before, separate_paths(args.keyword, args.output_dir)[j])

\* the questions step fails in a fresh tree: the directory and the first two
\* files are there, the call raised
C23_Witness ==
    /\ Done("export_separate_csvs")
    /\ args.output_dir = "out"
    /\ export.before = NoFiles
    /\ FailedStep = 3
    /\ outcome.status = "raise"
    /\ outcome.msg.outer = "Failed to export separate CSVs"
    /\ export.file_paths = <<>>
    /\ "out" \in files.dirs
    /\ WrittenFile(1) /\ WrittenFile(2)
    /\ FileAt(files, separate_paths(args.keyword, args.output_dir)[3]) = None_


LevelledMetrics == {"volume", "competition", "overall"}

\* the level reported for a metric
ReportedLevel(f) ==
    IF f = "volume" THEN Val(outcome.value.levels).volume_level
    ELSE IF f = "competition" THEN Val(outcome.value.levels).competition_level
    ELSE Val(outcome.value.levels).overall_level

\* C24: when the first matching variation holds a non-empty metrics object,
\* analyze_keyword succeeds even if volume, competition or overall is
\* missing: the missing metric is reported as 'N/A' and its level is Very
\* Low (the level of 0); a present metric is reported with its own level.
C24_MissingMetricVeryLow ==
    (Done("analyze_keyword") /\ response.kind = "object") =>
        \A i \in 1..4 :
            LET m == Lookup(UpstreamMap, variations(args.keyword)[i])
            IN  (FirstPresent(i) /\ DOMAIN m # {}) =>
                    /\ outcome.status = "ok"
                    /\ IsSome(outcome.value.levels)
                    /\ \A f \in LevelledMetrics :
                         IF f \in DOMAIN m
                         THEN /\ Val(outcome.value.data)[f] = Some(m[f])
                              /\ ReportedLevel(f) = _get_competition_level(m[f])
                         ELSE /\ Val(outcome.value.data)[f] = None_
                              /\ ReportedLevel(f) = "Very Low"
                              /\ ReportedLevel(f) = _get_competition_level(0)

C24_Witness ==
    /\ Done("analyze_keyword")
    /\ outcome.status = "ok"
    /\ Val(outcome.value.data).volume = Some(90)
    /\ ReportedLevel("volume") = "Very High"
    /\ Val(outcome.value.data).competition = None_
    /\ ReportedLevel("competition") = "Very Low"
    /\ Val(outcome.value.data).overall = None_
    /\ ReportedLevel("overall") = "Very Low"

====
